---- MODULE Spec2Model ----
(***************************************************************************)
(* A model of the palab visualizers:                                       *)
(*   - ast-visualizer.py: ASTVisualizer (tree -> graph conversion),        *)
(*     visualize_ast / _on_visualize_click, and prettify_dict;             *)
(*   - cfg-visualizer.py: draw_cfg.                                        *)
(* Python strings that the code inspects or rewrites character by          *)
(* character are sequences of one-character strings.                       *)
(***************************************************************************)
EXTENDS Integers, Sequences, FiniteSets, TLC

VARIABLES
    \* ---- ast-visualizer.py: visualize_ast / ASTVisualizer ----
    parsed,        \* what ast.parse(code) does for the code in the text area
    pc,            \* position inside _on_visualize_click / visualize_ast
    visualizer,    \* TRUE once ASTVisualizer() has been constructed
    graph_nodes,   \* self.graph body: the node statements, in emission order
    graph_edges,   \* self.graph body: the edge statements, in emission order
    parent_node,   \* self.parent_node
    uuid_count,    \* how many identities uuid.uuid4() has handed out
    stack,         \* the active generic_visit calls, innermost last
    visit_log,     \* history: the tree position each graph node was made for
    result,        \* the value visualize_ast returns
    rendered,      \* TRUE once graph.render has written ast_output.png
    output,        \* what the output widget shows
    \* ---- ast-visualizer.py: prettify_dict ----
    p_node, p_indent, p_show, p_text, p_pc,
    \* ---- cfg-visualizer.py: draw_cfg ----
    cfg, dot_nodes, dot_edges, c_pc, displayed

astVars == <<parsed, pc, visualizer, graph_nodes, graph_edges, parent_node,
             uuid_count, stack, visit_log, result, rendered, output>>
prettyVars == <<p_node, p_indent, p_show, p_text, p_pc>>
cfgVars == <<cfg, dot_nodes, dot_edges, c_pc, displayed>>
vars == <<astVars, prettyVars, cfgVars>>

Last(s) == s[Len(s)]
Front(s) == SubSeq(s, 1, Len(s) - 1)
SeqsUpTo(S, n) == UNION {[1..k -> S] : k \in 0..n}
RECURSIVE Flatten(_)
Flatten(ss) == IF ss = <<>> THEN <<>> ELSE Head(ss) \o Flatten(Tail(ss))

(***************************************************************************)
(* Trees as ast.parse builds them.  A field value is tagged with what      *)
(* isinstance() answers for it: an ast.AST node, a list, or anything else. *)
(***************************************************************************)
\* Python scalars: None, a str (its characters) and an int (its digits).
None == <<"None">>
StrVal(chars) == <<"str">> \o chars
IntVal(digits) == <<"int">> \o digits
\* str(v), as an f-string formats a value
PyStr(v) == IF v = None THEN <<"None">> ELSE Tail(v)
\* repr(v)
PyRepr(v) == IF v[1] = "str" THEN <<"'">> \o Tail(v) \o <<"'">> ELSE PyStr(v)

Ast(n) == [tag |-> "ast", node |-> n]
List(items) == [tag |-> "list", items |-> items]
Scalar(v) == [tag |-> "scalar", val |-> v]
Node(type, fields) == [type |-> type, fields |-> fields]
Field(name, value) == [name |-> name, value |-> value]

MaxDepth == 1
MaxBody == 2

Load == Node("Load", <<>>)
Store == Node("Store", <<>>)
Add == Node("Add", <<>>)
Pass == Node("Pass", <<>>)
Name(id, ctx) == Node("Name", <<Field("id", Scalar(id)), Field("ctx", Ast(ctx))>>)
Constant(v) == Node("Constant", <<Field("value", Scalar(v)), Field("kind", Scalar(None))>>)
BinOp(l, op, r) ==
    Node("BinOp", <<Field("left", Ast(l)), Field("op", Ast(op)), Field("right", Ast(r))>>)
Dict(keys, values) ==
    Node("Dict", <<Field("keys", List(keys)), Field("values", List(values))>>)
Assign(targets, value) ==
    Node("Assign", <<Field("targets", List(targets)), Field("value", Ast(value)),
                     Field("type_comment", Scalar(None))>>)
Global(names) == Node("Global", <<Field("names", List(names))>>)
Module(body) ==
    Node("Module", <<Field("body", List(body)), Field("type_ignores", List(<<>>))>>)

Atoms == {Name(StrVal(<<"x">>), Load), Constant(IntVal(<<"4", "2">>))}

\* {**x, k: k} parses to Dict(keys=[None, k], values=[x, k]).
Dicts == {Dict(<<Scalar(None), Ast(k)>>, <<Ast(Name(StrVal(<<"x">>), Load)), Ast(k)>>) : k \in Atoms}

RECURSIVE Exprs(_)
Exprs(d) ==
    IF d = 0 THEN Atoms
    ELSE Atoms \cup Dicts
           \cup {BinOp(l, Add, Constant(IntVal(<<"4", "2">>))) : l \in Exprs(d - 1)}

Stmts ==
    {Assign(<<Ast(Name(StrVal(<<"x">>), Store))>>, e) : e \in Exprs(MaxDepth)}
      \cup {Global(<<Scalar(StrVal(<<"x">>))>>), Global(<<Scalar(StrVal(<<"x">>)), Scalar(StrVal(<<"y">>))>>),
            Pass}

Trees == {Module([i \in 1..Len(b) |-> Ast(b[i])]) : b \in SeqsUpTo(Stmts, MaxBody)}

(***************************************************************************)
(* Positions in a tree.  A tree node is named by the path that leads to    *)
(* it from the root: a sequence of <<field index, item index>> steps,      *)
(* item index 0 for a field that holds the node itself.                    *)
(***************************************************************************)
RECURSIVE NodeAt(_, _)
NodeAt(t, path) ==
    IF path = <<>> THEN t
    ELSE LET v == t.fields[Head(path)[1]].value
             child == IF v.tag = "list" THEN v.items[Head(path)[2]].node ELSE v.node
         IN  NodeAt(child, Tail(path))

\* The tree-node children of one field value, in the order the loop of
\* generic_visit meets them, as path steps.
ChildSteps(fi, v) ==
    IF v.tag = "ast" THEN <<<<fi, 0>>>>
    ELSE IF v.tag = "list"
         THEN Flatten([i \in 1..Len(v.items) |->
                         IF v.items[i].tag = "ast" THEN <<<<fi, i>>>> ELSE <<>>])
         ELSE <<>>

Children(n) == Flatten([fi \in 1..Len(n.fields) |-> ChildSteps(fi, n.fields[fi].value)])

RECURSIVE PreOrder(_, _)
PreOrder(t, path) ==
    LET n == NodeAt(t, path)
        cs == Children(n)
    IN  <<path>> \o Flatten([k \in 1..Len(cs) |-> PreOrder(t, Append(path, cs[k]))])

(***************************************************************************)
(* ASTVisualizer                                                           *)
(***************************************************************************)
\* Python's truth test of `if parent_id:`: None and the empty string are false.
Truthy(v) == v # None /\ v # <<>>

\* str(uuid.uuid4()): the n-th call yields a token no earlier call yielded.
get_node_id_truncated(n) == <<"uuid", n % 2>>
get_node_id(n) == <<"uuid", n + 1>>

FieldVal(node, name) ==
    LET i == CHOOSE k \in 1..Len(node.fields) : node.fields[k].name = name
    IN  node.fields[i].value.val

get_node_label(node) ==
    CASE node.type = "Name" -> <<node.type, "\n", "id=">> \o PyStr(FieldVal(node, "id"))
      [] node.type = "Constant" -> <<node.type, "\n", "value=">> \o PyStr(FieldVal(node, "value"))
      [] node.type = "FunctionDef" -> <<node.type, "\n", "name=">> \o PyStr(FieldVal(node, "name"))
      [] node.type = "arg" -> <<node.type, "\n", "arg=">> \o PyStr(FieldVal(node, "arg"))
      [] OTHER -> <<node.type>>

\* add_edge, the edge part: graph.edge(parent_id, node_id) only under `if parent_id:`.
add_edge_always(edges, parent_id, node_id) == Append(edges, <<parent_id, node_id>>)
add_edge(edges, parent_id, node_id) ==
    IF Truthy(parent_id) THEN Append(edges, <<parent_id, node_id>>) ELSE edges

\* ast.iter_fields(node): the fields in _fields order; fi is the field's position.
iter_fields_reversed(node) ==
    [k \in 1..Len(node.fields) |->
        LET i == Len(node.fields) + 1 - k
        IN  [fi |-> i, name |-> node.fields[i].name, value |-> node.fields[i].value]]
iter_fields(node) ==
    [i \in 1..Len(node.fields) |->
        [fi |-> i, name |-> node.fields[i].name, value |-> node.fields[i].value]]

\* generic_visit line 108: old_parent = self.parent_node, read before line 111
\* overwrites it with the new node's identity.
save_parent_late(before, node_id) == node_id
save_parent(before, node_id) == before

\* generic_visit line 126: self.parent_node = old_parent.
restore_skipped(fr, current) == current
restore_parent(fr, current) == fr.old_parent

Tree == parsed.tree
Top == Last(stack)
TopFields == iter_fields(Top.node)
AtField == Top.f <= Len(TopFields)
CurField == TopFields[Top.f]

\* One call of generic_visit up to the start of its loop (lines 103-111),
\* made with `rest` as the callers' frames.
Enter(node, path, rest) ==
    LET parent_id == parent_node
        node_id == get_node_id(uuid_count)
        old_parent == save_parent(parent_node, node_id)
    IN  /\ uuid_count' = uuid_count + 1
        /\ graph_nodes' = Append(graph_nodes, [id |-> node_id, label |-> get_node_label(node)])
        /\ graph_edges' = add_edge(graph_edges, parent_id, node_id)
        /\ parent_node' = node_id
        /\ visit_log' = Append(visit_log, path)
        /\ stack' = Append(rest, [node |-> node, path |-> path, parent_id |-> parent_id,
                                  current_parent |-> node_id, old_parent |-> old_parent,
                                  f |-> 1, i |-> 1])

Advance(fr, f, i) == [fr EXCEPT !.f = f, !.i = i]

\* _on_visualize_click, visualize_ast: ast.parse raises SyntaxError.
ParseSyntaxError_early_visualizer ==
    /\ pc = "idle"
    /\ parsed.kind = "SyntaxError"
    /\ visualizer' = TRUE
    /\ result' = <<"Syntax Error: ", parsed.msg>>
    /\ output' = result'
    /\ pc' = "done"
    /\ UNCHANGED <<parsed, graph_nodes, graph_edges, parent_node, uuid_count,
                   stack, visit_log, rendered>>
    /\ UNCHANGED <<prettyVars, cfgVars>>
ParseSyntaxError ==
    /\ pc = "idle"
    /\ parsed.kind = "SyntaxError"
    /\ result' = <<"Syntax Error: ", parsed.msg>>
    /\ output' = result'
    /\ pc' = "done"
    /\ UNCHANGED <<parsed, visualizer, graph_nodes, graph_edges, parent_node, uuid_count,
                   stack, visit_log, rendered>>
    /\ UNCHANGED <<prettyVars, cfgVars>>

\* ast.parse raises something else (ValueError, RecursionError, ...).
ParseOtherError ==
    /\ pc = "idle"
    /\ parsed.kind = "Exception"
    /\ result' = <<"Error: ", parsed.msg>>
    /\ output' = result'
    /\ pc' = "done"
    /\ UNCHANGED <<parsed, visualizer, graph_nodes, graph_edges, parent_node, uuid_count,
                   stack, visit_log, rendered>>
    /\ UNCHANGED <<prettyVars, cfgVars>>

\* ast.parse returns a tree: ASTVisualizer() and visualizer.visit(tree).
ParseOkVisitRoot ==
    /\ pc = "idle"
    /\ parsed.kind = "ok"
    /\ visualizer' = TRUE
    /\ output' = <<>>
    /\ Enter(Tree, <<>>, <<>>)
    /\ pc' = "visit"
    /\ UNCHANGED <<parsed, result, rendered>>
    /\ UNCHANGED <<prettyVars, cfgVars>>

\* elif isinstance(value, ast.AST): self.visit(value)
VisitField ==
    /\ pc = "visit" /\ AtField /\ CurField.value.tag = "ast"
    /\ Enter(CurField.value.node, Append(Top.path, <<CurField.fi, 0>>),
             Append(Front(stack), Advance(Top, Top.f + 1, 1)))
    /\ UNCHANGED <<parsed, pc, visualizer, result, rendered, output>>
    /\ UNCHANGED <<prettyVars, cfgVars>>

\* a field that is neither a list nor a node
SkipField ==
    /\ pc = "visit" /\ AtField /\ CurField.value.tag = "scalar"
    /\ stack' = Append(Front(stack), Advance(Top, Top.f + 1, 1))
    /\ UNCHANGED <<parsed, pc, visualizer, graph_nodes, graph_edges, parent_node,
                   uuid_count, visit_log, result, rendered, output>>
    /\ UNCHANGED <<prettyVars, cfgVars>>

\* for item in value: if isinstance(item, ast.AST): self.visit(item)
VisitItem ==
    /\ pc = "visit" /\ AtField /\ CurField.value.tag = "list"
    /\ Top.i <= Len(CurField.value.items)
    /\ CurField.value.items[Top.i].tag = "ast"
    /\ Enter(CurField.value.items[Top.i].node, Append(Top.path, <<CurField.fi, Top.i>>),
             Append(Front(stack), Advance(Top, Top.f, Top.i + 1)))
    /\ UNCHANGED <<parsed, pc, visualizer, result, rendered, output>>
    /\ UNCHANGED <<prettyVars, cfgVars>>

SkipItem ==
    /\ pc = "visit" /\ AtField /\ CurField.value.tag = "list"
    /\ Top.i <= Len(CurField.value.items)
    /\ CurField.value.items[Top.i].tag # "ast"
    /\ stack' = Append(Front(stack), Advance(Top, Top.f, Top.i + 1))
    /\ UNCHANGED <<parsed, pc, visualizer, graph_nodes, graph_edges, parent_node,
                   uuid_count, visit_log, result, rendered, output>>
    /\ UNCHANGED <<prettyVars, cfgVars>>

EndList ==
    /\ pc = "visit" /\ AtField /\ CurField.value.tag = "list"
    /\ Top.i > Len(CurField.value.items)
    /\ stack' = Append(Front(stack), Advance(Top, Top.f + 1, 1))
    /\ UNCHANGED <<parsed, pc, visualizer, graph_nodes, graph_edges, parent_node,
                   uuid_count, visit_log, result, rendered, output>>
    /\ UNCHANGED <<prettyVars, cfgVars>>

\* the loop is over: restore the parent and return to the caller
Return ==
    /\ pc = "visit" /\ ~AtField
    /\ parent_node' = restore_parent(Top, parent_node)
    /\ stack' = Front(stack)
    /\ pc' = IF Len(stack) = 1 THEN "render" ELSE "visit"
    /\ UNCHANGED <<parsed, visualizer, graph_nodes, graph_edges, uuid_count,
                   visit_log, result, rendered, output>>
    /\ UNCHANGED <<prettyVars, cfgVars>>

\* graph.render(...); return Image(...); display(result)
Render ==
    /\ pc = "render"
    /\ rendered' = TRUE
    /\ result' = <<"Image", "ast_output.png">>
    /\ output' = result'
    /\ pc' = "done"
    /\ UNCHANGED <<parsed, visualizer, graph_nodes, graph_edges, parent_node, uuid_count,
                   stack, visit_log>>
    /\ UNCHANGED <<prettyVars, cfgVars>>

\* graph.render raises (no dot executable, ...): except Exception
RenderFails ==
    /\ pc = "render"
    /\ result' = <<"Error: ", <<"render">>>>
    /\ output' = result'
    /\ pc' = "done"
    /\ UNCHANGED <<parsed, visualizer, graph_nodes, graph_edges, parent_node, uuid_count,
                   stack, visit_log, rendered>>
    /\ UNCHANGED <<prettyVars, cfgVars>>

ParseOutcomes ==
    {[kind |-> "ok", tree |-> t, msg |-> <<>>] : t \in Trees}
      \cup {[kind |-> k, tree |-> Pass, msg |-> <<"invalid">>] : k \in {"SyntaxError", "Exception"}}

PrettyIdle ==
    /\ p_node = Pass /\ p_indent = 0 /\ p_show = FALSE /\ p_text = <<>> /\ p_pc = "off"
CfgIdle ==
    /\ cfg = [nodes |-> <<>>, edges |-> <<>>]
    /\ dot_nodes = <<>> /\ dot_edges = <<>> /\ c_pc = "off" /\ displayed = FALSE
AstIdle ==
    /\ parsed = [kind |-> "Exception", tree |-> Pass, msg |-> <<>>]
    /\ pc = "off" /\ visualizer = FALSE /\ graph_nodes = <<>> /\ graph_edges = <<>>
    /\ parent_node = None /\ uuid_count = 0 /\ stack = <<>> /\ visit_log = <<>>
    /\ result = None /\ rendered = FALSE /\ output = <<>>

InitAst ==
    /\ parsed \in ParseOutcomes
    /\ pc = "idle"
    /\ visualizer = FALSE
    /\ graph_nodes = <<>>
    /\ graph_edges = <<>>
    /\ parent_node = None
    /\ uuid_count = 0
    /\ stack = <<>>
    /\ visit_log = <<>>
    /\ result = None
    /\ rendered = FALSE
    /\ output \in {<<>>, <<"Image", "ast_output.png">>}
    /\ PrettyIdle /\ CfgIdle

NextAst ==
    \/ ParseSyntaxError \/ ParseOtherError \/ ParseOkVisitRoot
    \/ VisitField \/ SkipField \/ VisitItem \/ SkipItem \/ EndList \/ Return
    \/ Render \/ RenderFails

SpecAst == InitAst /\ [][NextAst]_vars

(***************************************************************************)
(* Properties of the conversion                                            *)
(***************************************************************************)
Range(s) == {s[k] : k \in 1..Len(s)}
Converted == parsed.kind = "ok" /\ pc \in {"render", "done"}
Incoming(id) == {e \in 1..Len(graph_edges) : graph_edges[e][2] = id}
NodeIds == {graph_nodes[k].id : k \in 1..Len(graph_nodes)}

\* C1: once visit(t) has returned, there is exactly one graph node per tree
\* node reachable through node-valued fields and node items of list fields,
\* and |nodes| - 1 edges: one incoming edge per non-root node, none for the root.
OneNodePerTreeNode ==
    Converted =>
        LET order == PreOrder(Tree, <<>>)
            n == Len(graph_nodes)
        IN  /\ n = Len(order)
            /\ Len(visit_log) = n
            /\ \A p \in Range(order) : Cardinality({k \in 1..n : visit_log[k] = p}) = 1
            /\ Len(graph_edges) = n - 1
            /\ \A k \in 1..n :
                  Cardinality(Incoming(graph_nodes[k].id)) =
                      IF visit_log[k] = <<>> THEN 0 ELSE 1

OneNodePerTreeNodeWitness == Converted /\ Len(graph_nodes) >= 8 /\ Len(graph_edges) >= 7

\* C2: the edge recorded for a non-root node n goes from the identity of n's
\* tree parent to the identity of n, and every edge endpoint is the identity
\* of a recorded graph node.
EdgesFollowTreeParent ==
    /\ \A k \in 1..Len(graph_nodes) :
          visit_log[k] # <<>> =>
              /\ Incoming(graph_nodes[k].id) # {}
              /\ \A e \in Incoming(graph_nodes[k].id) :
                    \E j \in 1..Len(graph_nodes) :
                        /\ visit_log[j] = Front(visit_log[k])
                        /\ graph_edges[e][1] = graph_nodes[j].id
    /\ \A e \in 1..Len(graph_edges) :
          graph_edges[e][1] \in NodeIds /\ graph_edges[e][2] \in NodeIds

\* A later sibling has been visited right after a deeper descendant of an
\* earlier sibling.
EdgesFollowTreeParentWitness ==
    \E k \in 2..Len(graph_nodes) :
        /\ Len(visit_log[k - 1]) > Len(visit_log[k])
        /\ Len(visit_log[k]) >= 1
        /\ Incoming(graph_nodes[k].id) # {}

\* C3: within one conversion no two graph nodes share an identity.
UniqueIdentities ==
    \A i, j \in 1..Len(graph_nodes) :
        i # j => graph_nodes[i].id # graph_nodes[j].id

\* Two structurally identical tree nodes have both been recorded.
UniqueIdentitiesWitness ==
    /\ parsed.kind = "ok"
    /\ \E i, j \in 1..Len(graph_nodes) :
          /\ i # j
          /\ NodeAt(Tree, visit_log[i]) = NodeAt(Tree, visit_log[j])
          /\ graph_nodes[i].label = graph_nodes[j].label

\* C4: when ast.parse fails, visualize_ast returns an error string carrying
\* the failure's message, shown as is; no visualizer is created, no node or
\* edge is recorded and nothing is rendered.
ParseFailurePassedThrough ==
    parsed.kind # "ok" =>
        /\ ~visualizer /\ ~rendered
        /\ graph_nodes = <<>> /\ graph_edges = <<>> /\ uuid_count = 0 /\ stack = <<>>
        /\ pc \in {"idle", "done"}
        /\ pc = "done" =>
              /\ result = <<IF parsed.kind = "SyntaxError" THEN "Syntax Error: " ELSE "Error: ",
                            parsed.msg>>
              /\ output = result

ParseFailurePassedThroughWitness ==
    parsed.kind = "SyntaxError" /\ pc = "done" /\ output[1] = "Syntax Error: "

\* C9: graph nodes are recorded in depth-first pre-order (fields in declared
\* order, list items in sequence order, a child's subtree before the next
\* sibling); scalar fields and non-node list items yield no node and no edge.
RecordedInPreOrder ==
    parsed.kind = "ok" =>
        LET order == PreOrder(Tree, <<>>)
            n == Len(graph_nodes)
        IN  /\ n <= Len(order)
            /\ Len(visit_log) = n
            /\ \A k \in 1..n :
                  /\ visit_log[k] = order[k]
                  /\ graph_nodes[k].label = get_node_label(NodeAt(Tree, order[k]))
            /\ Converted => n = Len(order)
            /\ Len(graph_edges) = IF n = 0 THEN 0 ELSE n - 1

\* A finished conversion of a tree with a scalar field, a None list item and
\* two statements.
RecordedInPreOrderWitness ==
    /\ Converted
    /\ Len(Tree.fields[1].value.items) = 2
    /\ \E k \in 1..Len(graph_nodes) : NodeAt(Tree, visit_log[k]).type = "Dict"

\* parent_node between two steps of the traversal
ParentNodeState ==
    /\ (parsed.kind = "ok" /\ stack = <<>>) => parent_node = None
    /\ stack # <<>> => parent_node = Top.current_parent

\* C10: a generic_visit call that returns leaves parent_node as it found it
\* at entry, so it is None again after the top-level visit of a fresh
\* visualizer; while a node's children are visited, parent_node is that
\* node's identity whenever the loop is about to visit a child.
ParentNodeRestored ==
    /\ []ParentNodeState
    /\ [][Len(stack') < Len(stack) => parent_node' = Top.parent_id]_vars

ParentNodeRestoredWitness ==
    /\ Converted /\ parent_node = None /\ Len(graph_nodes) >= 5

(***************************************************************************)
(* cfg-visualizer.py: draw_cfg                                             *)
(***************************************************************************)
MaxContentLen == 4
MaxCfgNodes == 2
MaxCfgEdges == 2

\* str.replace(old, new) for a one-character `old`
Replace(s, old, new) == Flatten([i \in 1..Len(s) |-> IF s[i] = old THEN new ELSE <<s[i]>>])

Amp == <<"&", "a", "m", "p", ";">>
Lt == <<"&", "l", "t", ";">>
Gt == <<"&", "g", "t", ";">>
Br == <<"<", "b", "r", "/", ">">>

\* lines 27-29
escape_content_break_first(content) ==
    Replace(Replace(Replace(Replace(content, "\n", Br), "&", Amp), "<", Lt), ">", Gt)
escape_content(content) ==
    Replace(Replace(Replace(Replace(content, "&", Amp), "<", Lt), ">", Gt), "\n", Br)

\* dot.attr('node', ...): what a node statement without overrides gets
NodeDefaults ==
    {<<"shape", "box">>, <<"style", "filled">>, <<"fillcolor", "lightblue">>,
     <<"color", "darkblue">>, <<"fontsize", "10">>}

\* lines 33-41: the keyword arguments of dot.node
node_attrs_initial_only(special) ==
    IF special = <<"initial">>
    THEN {<<"shape", "circle">>, <<"fillcolor", "lightgreen">>, <<"color", "darkgreen">>}
    ELSE {}
node_attrs(special) ==
    IF special = <<"initial">>
    THEN {<<"shape", "circle">>, <<"fillcolor", "lightgreen">>, <<"color", "darkgreen">>}
    ELSE IF special = <<"terminal">>
         THEN {<<"shape", "doublecircle">>, <<"fillcolor", "mistyrose">>,
               <<"color", "darkred">>}
         ELSE {}

\* lines 48-51: the keyword arguments of dot.edge
edge_attrs_always(condition) == {<<"label", condition>>}
edge_attrs(condition) == IF Truthy(condition) THEN {<<"label", condition>>} ELSE {}

\* one iteration of `for node in cfg.nodes`
DrawNode ==
    /\ c_pc = "draw"
    /\ Len(dot_nodes) < Len(cfg.nodes)
    /\ LET node == cfg.nodes[Len(dot_nodes) + 1]
           content == escape_content(node.content)
           node_id == ToString(node.id)
       IN  dot_nodes' = Append(dot_nodes,
                               [name |-> node_id, label |-> <<"<">> \o content \o <<">">>,
                                attrs |-> node_attrs(node.special)])
    /\ UNCHANGED <<cfg, dot_edges, c_pc, displayed>>
    /\ UNCHANGED <<astVars, prettyVars>>

\* one iteration of `for edge in cfg.edges`
DrawEdge ==
    /\ c_pc = "draw"
    /\ Len(dot_nodes) = Len(cfg.nodes)
    /\ Len(dot_edges) < Len(cfg.edges)
    /\ LET edge == cfg.edges[Len(dot_edges) + 1]
           source == ToString(edge.source)
           target == ToString(edge.target)
       IN  dot_edges' = Append(dot_edges,
                               [tail |-> source, head |-> target,
                                attrs |-> edge_attrs(edge.condition)])
    /\ UNCHANGED <<cfg, dot_nodes, c_pc, displayed>>
    /\ UNCHANGED <<astVars, prettyVars>>

\* display(dot)
Display ==
    /\ c_pc = "draw"
    /\ Len(dot_nodes) = Len(cfg.nodes)
    /\ Len(dot_edges) = Len(cfg.edges)
    /\ displayed' = TRUE
    /\ c_pc' = "done"
    /\ UNCHANGED <<cfg, dot_nodes, dot_edges>>
    /\ UNCHANGED <<astVars, prettyVars>>

ContentChars == {"&", "<", ">", "\n", "a"}
Specials == {None, <<"initial">>, <<"terminal">>, <<"other">>}
Conditions == {None, <<>>, <<"i % 2 == 0">>}
EdgeEnds == {<<1, 2>>, <<2, 1>>, <<1, 1>>}

CfgNode(id, content, special) == [id |-> id, content |-> content, special |-> special]
CfgEdge(source, target, condition) ==
    [source |-> source, target |-> target, condition |-> condition]

\* graphs of a few nodes and edges, the nodes numbered in order
CfgGraphs ==
    {[nodes |-> [k \in 1..Len(ss) |-> CfgNode(k, <<"a", "\n">>, ss[k])], edges |-> es] :
        ss \in SeqsUpTo(Specials, MaxCfgNodes),
        es \in SeqsUpTo({CfgEdge(e[1], e[2], c) : e \in EdgeEnds, c \in Conditions},
                        MaxCfgEdges)}

\* graphs of one node with any content
CfgTexts ==
    {[nodes |-> <<CfgNode(1, c, sp)>>, edges |-> es] :
        c \in SeqsUpTo(ContentChars, MaxContentLen),
        sp \in {None, <<"initial">>, <<"terminal">>},
        es \in {<<>>, <<CfgEdge(1, 1, None)>>}}

InitDraw ==
    /\ dot_nodes = <<>> /\ dot_edges = <<>> /\ c_pc = "draw" /\ displayed = FALSE
    /\ AstIdle /\ PrettyIdle

InitCfg == cfg \in CfgGraphs /\ InitDraw
InitCfgText == cfg \in CfgTexts /\ InitDraw

NextCfg == DrawNode \/ DrawEdge \/ Display

SpecCfg == InitCfg /\ [][NextCfg]_vars
SpecCfgText == InitCfgText /\ [][NextCfg]_vars

\* C6: the label of every emitted node is the content with each '&' turned
\* into '&amp;', each '<' into '&lt;', each '>' into '&gt;' and each line
\* break into '<br/>', nothing escaped twice, between the '<' '>' of an
\* HTML-like label.
EscapeChar(ch) ==
    CASE ch = "&" -> Amp
      [] ch = "<" -> Lt
      [] ch = ">" -> Gt
      [] ch = "\n" -> Br
      [] OTHER -> <<ch>>
EscapedOnce ==
    \A k \in 1..Len(dot_nodes) :
        LET content == cfg.nodes[k].content
        IN  dot_nodes[k].label =
                <<"<">> \o Flatten([i \in 1..Len(content) |-> EscapeChar(content[i])]) \o <<">">>

\* a drawn node whose content holds all four special characters
EscapedOnceWitness ==
    /\ displayed
    /\ \E k \in 1..Len(dot_nodes) :
          {"&", "<", ">", "\n"} \subseteq Range(cfg.nodes[k].content)

\* C7: one emitted edge per input edge, in input order, from str(source) to
\* str(target), labelled with the condition as it is when there is one (a
\* non-empty string), without a label otherwise.
EdgesAsGiven ==
    /\ Len(dot_edges) <= Len(cfg.edges)
    /\ displayed => Len(dot_edges) = Len(cfg.edges)
    /\ \A k \in 1..Len(dot_edges) :
          LET edge == cfg.edges[k]
          IN  /\ dot_edges[k].tail = ToString(edge.source)
              /\ dot_edges[k].head = ToString(edge.target)
              /\ dot_edges[k].attrs =
                    IF edge.condition \in {None, <<>>} THEN {}
                    ELSE {<<"label", edge.condition>>}

EdgesAsGivenWitness ==
    /\ displayed
    /\ Len(dot_edges) = 2
    /\ dot_edges[1].attrs = {<<"label", <<"i % 2 == 0">>>>}
    /\ dot_edges[2].attrs = {}
    /\ dot_edges[1].tail # dot_edges[2].tail

\* C8: one emitted node per input node, shaped by its special marker alone:
\* circle with the start colours for "initial", doublecircle with the end
\* colours for "terminal", the default box without any override otherwise.
Effective(attrs, key) ==
    IF \E a \in attrs : a[1] = key
    THEN (CHOOSE a \in attrs : a[1] = key)[2]
    ELSE (CHOOSE a \in NodeDefaults : a[1] = key)[2]
NodesByMarker ==
    /\ Len(dot_nodes) <= Len(cfg.nodes)
    /\ displayed => Len(dot_nodes) = Len(cfg.nodes)
    /\ \A k \in 1..Len(dot_nodes) :
          LET node == cfg.nodes[k]
              drawn == dot_nodes[k]
              look == <<Effective(drawn.attrs, "shape"), Effective(drawn.attrs, "fillcolor"),
                        Effective(drawn.attrs, "color")>>
          IN  /\ drawn.name = ToString(node.id)
              /\ node.special = <<"initial">> =>
                    look = <<"circle", "lightgreen", "darkgreen">>
              /\ node.special = <<"terminal">> =>
                    look = <<"doublecircle", "mistyrose", "darkred">>
              /\ node.special \notin {<<"initial">>, <<"terminal">>} =>
                    drawn.attrs = {} /\ look = <<"box", "lightblue", "darkblue">>

\* the scenario: one initial node, one terminal node, one unconditional edge
NodesByMarkerWitness ==
    /\ displayed
    /\ Len(cfg.nodes) = 2 /\ Len(cfg.edges) = 1
    /\ cfg.nodes[1].special = <<"initial">> /\ cfg.nodes[2].special = <<"terminal">>
    /\ cfg.edges[1] = CfgEdge(1, 2, None)
    /\ Effective(dot_nodes[1].attrs, "shape") = "circle"
    /\ Effective(dot_nodes[2].attrs, "shape") = "doublecircle"
    /\ dot_edges = <<[tail |-> "1", head |-> "2", attrs |-> {}]>>

(***************************************************************************)
(* ast-visualizer.py: ast_to_dict, prettify_dict                           *)
(* The text is a sequence of pieces [ch, by]: ch is the piece of the       *)
(* string (the string is the concatenation of the ch), by records which    *)
(* part of the code wrote it.  "(", ")", a space and a line break are      *)
(* always pieces of their own.                                             *)
(***************************************************************************)
MaxIndent == 1
MaxNest == 2

Piece(ch, by) == [ch |-> ch, by |-> by]
Pieces(chs, by) == [k \in 1..Len(chs) |-> Piece(chs[k], by)]
Lit(chs) == Pieces(chs, "node")
Spaces(n) == [k \in 1..n |-> Piece(" ", "node")]

RECURSIVE Join(_, _)
Join(ss, sep) ==
    IF Len(ss) = 0 THEN <<>>
    ELSE IF Len(ss) = 1 THEN ss[1]
    ELSE ss[1] \o sep \o Join(Tail(ss), sep)

Dictv(n) == [tag |-> "dict", node |-> n]

\* ast_to_dict: an ast.AST becomes {'type', 'fields'}, a list is converted
\* item by item, anything else is kept.
RECURSIVE ast_to_dict(_)
ast_to_dict_value(v) ==
    CASE v.tag = "ast" -> Dictv(ast_to_dict(v.node))
      [] v.tag = "list" ->
            List([i \in 1..Len(v.items) |->
                     IF v.items[i].tag = "ast" THEN Dictv(ast_to_dict(v.items[i].node))
                     ELSE v.items[i]])
      [] OTHER -> v
ast_to_dict(node) ==
    Node(node.type,
         [k \in 1..Len(node.fields) |->
             Field(node.fields[k].name, ast_to_dict_value(node.fields[k].value))])

\* NODE_CATEGORIES as last bound (lines 350-366), default 'ATTRIBUTE'
NodeCategory(node_type) ==
    CASE node_type \in {"FunctionDef", "ClassDef", "AsyncFunctionDef"} -> "DEFINITION"
      [] node_type \in {"If", "For", "While"} -> "CONTROL_FLOW"
      [] node_type \in {"Call", "Name", "Attribute"} -> "EXPRESSION"
      [] node_type = "Constant" -> "LITERAL"
      [] node_type \in {"Return", "Assign"} -> "STATEMENT"
      [] node_type \in {"Add", "Sub", "Mult"} -> "OPERATOR"
      [] OTHER -> "ATTRIBUTE"

\* class Colors as last bound (lines 340-348)
Color(category) ==
    CASE category = "STATEMENT" -> "\\033[92m"
      [] category = "EXPRESSION" -> "\\033[94m"
      [] category = "CONTROL_FLOW" -> "\\033[95m"
      [] category = "DEFINITION" -> "\\033[96m"
      [] category = "OPERATOR" -> "\\033[93m"
      [] category = "LITERAL" -> "\\033[91m"
      [] OTHER -> "\\033[97m"
ColorReset == "\\033[0m"

colorize(node_type, text) ==
    Pieces(<<Color(NodeCategory(node_type)), text, ColorReset>>, "color")

\* NODE_EXPLANATIONS as last bound (lines 368-381), '' when absent
NodeExplanation(node_type) ==
    CASE node_type = "Module" -> <<"Root", " ", "node", " ", "of", " ", "the", " ", "AST">>
      [] node_type = "FunctionDef" ->
            <<"Function", " ", "definition", " ", "(", "def", " ", "keyword", ")">>
      [] node_type = "ClassDef" ->
            <<"Class", " ", "definition", " ", "(", "class", " ", "keyword", ")">>
      [] node_type = "If" ->
            <<"If", " ", "statement", " ", "for", " ", "conditional", " ", "execution">>
      [] node_type = "For" -> <<"For", " ", "loop", " ", "for", " ", "iteration">>
      [] node_type = "Call" -> <<"Function", " ", "or", " ", "method", " ", "call">>
      [] node_type = "Name" -> <<"Variable", " ", "or", " ", "function", " ", "name">>
      [] node_type = "Constant" ->
            <<"Literal", " ", "value", " ", "(", "number,", " ", "string,", " ", "etc.", ")">>
      [] node_type = "Return" -> <<"Return", " ", "statement">>
      [] node_type = "Assign" -> <<"Assignment", " ", "statement", " ", "(", "=", ")">>
      [] node_type = "arguments" -> <<"Function", " ", "arguments", " ", "definition">>
      [] node_type = "arg" -> <<"Single", " ", "function", " ", "argument">>
      [] OTHER -> <<>>

get_explanation(node_type, show_explanations) ==
    IF ~show_explanations THEN <<>>
    ELSE LET explanation == NodeExplanation(node_type)
         IN  IF explanation # <<>>
             THEN Pieces(<<" ", "#", " ">> \o explanation, "explanation")
             ELSE <<>>

\* line 440: a list item that is a node is printed two levels deeper
item_level_one(indent_level) == indent_level + 1
item_level(indent_level) == indent_level + 2

RECURSIVE prettify_dict(_, _, _)
prettify_dict(node_dict, indent_level, show_explanations) ==
    LET indent == Spaces(2 * indent_level)
        node_type == node_dict.type
        fields == node_dict.fields
        head == colorize(node_type, node_type) \o get_explanation(node_type, show_explanations)
        nl == Lit(<<"\n">>)
        Item(item) ==
            IF item.tag = "dict"
            THEN prettify_dict(item.node, item_level(indent_level), show_explanations)
            ELSE Pieces(PyRepr(item.val), "repr")
        FieldStr(k) ==
            LET name == fields[k].name
                value == fields[k].value
            IN  indent \o Spaces(2) \o
                (CASE value.tag = "dict" ->
                        Lit(<<name, "=">>)
                          \o prettify_dict(value.node, indent_level + 1, show_explanations)
                   [] value.tag = "list" ->
                        IF Len(value.items) = 0 THEN Lit(<<name, "=", "[", "]">>)
                        ELSE Lit(<<name, "=", "[", "\n">>) \o indent \o Spaces(4)
                               \o Join([i \in 1..Len(value.items) |-> Item(value.items[i])],
                                       Lit(<<",", "\n">>) \o indent \o Spaces(4))
                               \o nl \o indent \o Spaces(2) \o Lit(<<"]">>)
                   [] OTHER -> Lit(<<name, "=">>) \o Pieces(PyRepr(value.val), "repr"))
        field_strs == [k \in 1..Len(fields) |-> FieldStr(k)]
    IN  IF Len(fields) = 0 THEN head
        ELSE head \o Lit(<<"(">>) \o
             (IF Len(field_strs) # 0
              THEN nl \o Join(field_strs, Lit(<<",", "\n">>)) \o nl \o indent \o Lit(<<")">>)
              ELSE Lit(<<")">>))

\* prettify_dict(node_dict, indent_level, show_explanations), as print_ast
\* and any other caller runs it
Prettify ==
    /\ p_pc = "ready"
    /\ p_text' = prettify_dict(p_node, p_indent, p_show)
    /\ p_pc' = "done"
    /\ UNCHANGED <<p_node, p_indent, p_show>>
    /\ UNCHANGED <<astVars, cfgVars>>

\* Node dictionaries: any kind with or without fields, scalars whose repr
\* may hold a parenthesis, nodes as field values and as list items.
PTypes == {"Assign", "Name", "Load"}
PScalars == {Scalar(StrVal(<<"x">>)), Scalar(StrVal(<<"(">>))}
PValues(S) ==
    PScalars \cup {List(<<>>)}
      \cup {Dictv(n) : n \in S}
      \cup {List(<<Dictv(n), Scalar(None)>>) : n \in S}
      \cup {List(<<Dictv(n), Dictv(n)>>) : n \in S}
RECURSIVE PNodes(_)
PNodes(d) ==
    IF d = 0 THEN {Node(t, <<>>) : t \in PTypes}
    ELSE LET V == PValues(PNodes(d - 1)) IN
         {Node(t, <<>>) : t \in PTypes}
           \cup {Node(t, <<Field("a", v)>>) : t \in PTypes, v \in V}
           \cup {Node("Assign", <<Field("a", v), Field("b", Scalar(None))>>) : v \in V}

PrettyInputs == PNodes(MaxNest) \cup {ast_to_dict(st) : st \in Stmts}

InitPretty ==
    /\ p_node \in PrettyInputs
    /\ p_indent \in 0..MaxIndent
    /\ p_show \in BOOLEAN
    /\ p_text = <<>>
    /\ p_pc = "ready"
    /\ AstIdle /\ CfgIdle

NextPretty == Prettify

SpecPretty == InitPretty /\ [][NextPretty]_vars

(***************************************************************************)
(* Properties of the printed text                                          *)
(***************************************************************************)
TextIdx == 1..Len(p_text)
CharAt(k) == p_text[k].ch
LineStart(k) ==
    CHOOSE j \in 1..k :
        /\ j = 1 \/ CharAt(j - 1) = "\n"
        /\ \A m \in j..(k - 1) : CharAt(m) # "\n"
OnlySpaces(a, b) == \A m \in a..b : CharAt(m) = " "
\* the number of spaces the line of piece k starts with
IndentOf(k) ==
    LET a == LineStart(k)
    IN  Cardinality({m \in a..Len(p_text) : OnlySpaces(a, m)})
StartsItsLine(k) == OnlySpaces(LineStart(k), k - 1)
EndsItsLine(k) ==
    \/ k = Len(p_text)
    \/ CharAt(k + 1) = "\n"
    \/ CharAt(k + 1) = "," /\ CharAt(k + 2) = "\n"

\* One pass over the text that pairs the parentheses prettify_dict writes
\* itself (lines 426, 451, 453).  ind: the spaces the current line starts
\* with; lead: nothing but spaces on the line so far; line: 1 on the first
\* line, 2 later; opens: the open parentheses not yet closed, each with the
\* ind and line of its line; closes: the closing ones met, each with its
\* position, its line's ind, whether it came first on its line, and the
\* opening one it answers; stray: a closing one without an opening one.
ScanStart ==
    [ind |-> 0, lead |-> TRUE, line |-> 1, opens |-> <<>>, closes |-> <<>>, stray |-> FALSE]
ScanPiece(st, k) ==
    LET piece == p_text[k]
    IN  CASE piece.ch = "\n" -> [st EXCEPT !.ind = 0, !.lead = TRUE, !.line = 2]
          [] piece.ch = " " -> IF st.lead THEN [st EXCEPT !.ind = @ + 1] ELSE st
          [] piece = Piece("(", "node") ->
                [st EXCEPT !.lead = FALSE,
                           !.opens = Append(@, [ind |-> st.ind, line |-> st.line])]
          [] piece = Piece(")", "node") ->
                IF st.opens = <<>> THEN [st EXCEPT !.lead = FALSE, !.stray = TRUE]
                ELSE [st EXCEPT !.lead = FALSE,
                                !.opens = Front(@),
                                !.closes = Append(@, [pos |-> k, ind |-> st.ind,
                                                      first |-> st.lead,
                                                      open |-> Last(st.opens)])]
          [] OTHER -> [st EXCEPT !.lead = FALSE]
\* the pieces lo..hi in order, split in halves to keep the evaluation
\* shallow; the test of left.line has the left half evaluated first
RECURSIVE ScanText(_, _, _)
ScanText(st, lo, hi) ==
    IF lo > hi THEN st
    ELSE IF lo = hi THEN ScanPiece(st, lo)
    ELSE LET mid == (lo + hi) \div 2
             left == ScanText(st, lo, mid)
         IN  IF left.line >= 1 THEN ScanText(left, mid + 1, hi) ELSE left

\* The indentation the closing parentheses are to have, in the order they
\* appear: 2*(d+1) for a node that is a field value of a node at level d,
\* 2*(d+2) for one that is a list item, then 2*d for the node itself.
RECURSIVE ClosingIndents(_, _)
ClosingIndents(node_dict, d) ==
    IF Len(node_dict.fields) = 0 THEN <<>>
    ELSE Flatten([k \in 1..Len(node_dict.fields) |->
                    LET value == node_dict.fields[k].value
                    IN  CASE value.tag = "dict" -> ClosingIndents(value.node, d + 1)
                          [] value.tag = "list" ->
                                Flatten([i \in 1..Len(value.items) |->
                                            IF value.items[i].tag = "dict"
                                            THEN ClosingIndents(value.items[i].node, d + 2)
                                            ELSE <<>>])
                          [] OTHER -> <<>>])
           \o <<2 * d>>

\* C5, the claim as stated, on the characters of the text: no parenthesis
\* at all for a node without fields; balanced parentheses, the last one
\* starting its own line at 2*d spaces, for a node with fields.
AllDepth(k) ==
    Cardinality({o \in 1..k : CharAt(o) = "("}) - Cardinality({c \in 1..k : CharAt(c) = ")"})
ParenthesesAsClaimed ==
    p_pc = "done" =>
        IF Len(p_node.fields) = 0
        THEN \A k \in TextIdx : CharAt(k) \notin {"(", ")"}
        ELSE /\ AllDepth(Len(p_text)) = 0
             /\ \A k \in TextIdx : AllDepth(k) >= 0
             /\ CharAt(Len(p_text)) = ")"
             /\ StartsItsLine(Len(p_text))
             /\ IndentOf(Len(p_text)) = 2 * p_indent

\* C5, amended: of the parentheses prettify_dict itself writes (those of an
\* explanation or of a scalar's repr set aside) there is none for a node
\* without fields; for a node with fields they are balanced, and every
\* node's closing parenthesis comes first on its line after the
\* indentation, with at most the separating comma behind it, at 2*d spaces
\* for the level d the node is printed at (the call's level for the root,
\* one more for a field value, two more for a list item); for a nested
\* node that is the indentation of the line of its opening kind token,
\* while the root's own first line is returned without indentation.
OwnParenthesesAligned ==
    p_pc = "done" =>
        LET scan == ScanText(ScanStart, 1, Len(p_text))
            closes == scan.closes
        IN  /\ ~scan.stray /\ scan.opens = <<>>
            /\ Len(p_node.fields) = 0 => closes = <<>>
            /\ Len(p_node.fields) # 0 =>
                  /\ closes # <<>>
                  /\ Last(closes).pos = Len(p_text)
                  /\ Last(closes).open.line = 1
                  /\ Last(closes).ind = 2 * p_indent
            /\ \A j \in 1..Len(closes) :
                  /\ closes[j].first
                  /\ EndsItsLine(closes[j].pos)
                  /\ closes[j].open.line = 1 => j = Len(closes)
                  /\ closes[j].open.line # 1 => closes[j].ind = closes[j].open.ind
            /\ [j \in 1..Len(closes) |-> closes[j].ind] = ClosingIndents(p_node, p_indent)

\* a printed node with explanations, a nested field value, list items and
\* parentheses that come from an explanation and from a scalar
OwnParenthesesAlignedWitness ==
    /\ p_pc = "done" /\ p_show /\ p_indent = 1
    /\ \E k \in TextIdx : p_text[k] = Piece("(", "explanation")
    /\ \E k \in TextIdx : p_text[k] = Piece("(", "repr")
    /\ \E k \in TextIdx : p_text[k] = Piece(")", "node") /\ k < Len(p_text) /\ CharAt(k + 1) = ","
    /\ \E k \in TextIdx : p_text[k] = Piece(")", "node") /\ IndentOf(k) = 2 * (p_indent + 2)

====
